---- MODULE Spec2Model ----
(***************************************************************************)
(* Model of the traffic-mirror map based detector node (src/src/node.cpp). *)
(*                                                                         *)
(* Units and number representation                                         *)
(*   - map and camera frame coordinates are integers (metres); sums that   *)
(*     the code halves (landmark center, vibration margins) are kept       *)
(*     doubled, marked by the suffix 2;                                    *)
(*   - time is counted in units of 0.01 s;                                 *)
(*   - the angular vibration terms are counted in units of pi/3, where     *)
(*     sin(angle * 0.5) is rational;                                       *)
(*   - a pixel coordinate (a double in the code) is an exact rational      *)
(*     <<num, den>> with den > 0;                                          *)
(*   - the ROI fields are unsigned 32-bit integers.  TLC's integers are    *)
(*     32 bits wide, so a uint32_t value v is kept as its residue modulo   *)
(*     2^32 nearest to zero: v itself when v < 2^31, v - 2^32 otherwise.   *)
(*     Sums and differences modulo 2^32 are then the integer ones, and     *)
(*     only the comparisons need care (ULess);                             *)
(*   - the camera is a distortion-free pinhole (unrectifyPoint is then     *)
(*     the identity) whose optical axis is horizontal.                     *)
(***************************************************************************)
EXTENDS Integers, Sequences, FiniteSets, TLC

VARIABLES
    declared,                  \* the parameter values handed to declare_parameter
    config_,                   \* Config after the constructor's validation
    narrowing,                 \* what the build does on double -> uint32_t of a value <= -1
    lanelet_map_ptr_,          \* 0 (nullptr) or the id of the map last received
    all_traffic_mirrors_ptr_,  \* <<>> (nullptr) or <<set of landmark ids>>
    route_traffic_mirrors_ptr_,\* <<>> (nullptr) or <<set of landmark ids>>
    running,                   \* the map or route callback under way and what it has yet to insert
    pass                       \* what the callback that ran last looked up and published

vars == <<declared, config_, narrowing, lanelet_map_ptr_, all_traffic_mirrors_ptr_,
          route_traffic_mirrors_ptr_, running, pass>>

-----------------------------------------------------------------------------
(* Program constants *)

\* rclcpp::Duration::from_seconds(0.01): the sampling step of the pose window
interval == 1

\* the default of timestamp_sample_len, 0.01 s
default_timestamp_sample_len == 1

\* the default of max_detection_range, 200 m
default_max_detection_range == 200

\* cos(deg2rad(40))^2 = 0.586824..., as CosSqNum / CosSqDen
CosSqNum == 586824

CosSqDen == 1000000

-----------------------------------------------------------------------------
(* Bounds of the model *)

\* frame stamps are StampBase .. StampBase + MaxStampStep
MaxStampStep == 1

\* declared timestamp_sample_len is -1 .. MaxSampleLen
MaxSampleLen == 2

-----------------------------------------------------------------------------
(* Pointers *)

Null == <<>>

Ptr(s) == <<s>>

Deref(p) == p[1]

-----------------------------------------------------------------------------
(* Arithmetic helpers *)

Min(a, b) == IF b < a THEN b ELSE a

Max(a, b) == IF a < b THEN b ELSE a

\* a rational pixel coordinate num/den, den > 0
Rat(n, d) == <<n, d>>

\* static_cast<uint32_t>(v) of a double v = r[1]/r[2]: truncation toward zero.
\* When the truncated value is negative it is not representable and the
\* conversion is undefined: a build either keeps the low 32 bits of the
\* 64-bit conversion ("wrap") or saturates at 0 ("saturate").
ToUint32(r, mode) ==
    IF r[1] >= 0 THEN r[1] \div r[2]
    ELSE LET t == (-r[1]) \div r[2]
         IN  IF t = 0 THEN 0
             ELSE IF mode = "wrap" THEN -t
             ELSE 0

\* a < b for two uint32_t values: a negative residue is a value >= 2^31
ULess(a, b) == IF (a < 0) = (b < 0) THEN a < b ELSE b < 0

\* std::min and std::max on uint32_t
UMin(a, b) == IF ULess(b, a) THEN b ELSE a

UMax(a, b) == IF ULess(a, b) THEN b ELSE a

\* 2 * sin(a * 0.5) for an angle of a units of pi/3, a in {0, 1, 3, 5, 6}
Sin2Half(a) ==
    CASE a = 0 -> 0
      [] a = 1 -> 1
      [] a = 3 -> 2
      [] a = 5 -> 1
      [] a = 6 -> 0

-----------------------------------------------------------------------------
(* Landmarks: lanelet::ConstLineString3d with its attributes *)

Pt(x, y, z) == [x |-> x, y |-> y, z |-> z]

LS(id, front, back, height, has_subtype, subtype) ==
    [id |-> id, front |-> front, back |-> back, height |-> height,
     has_subtype |-> has_subtype, subtype |-> subtype]

\* the line strings of the maps, by id
LineStrings ==
    [i \in 1..8 |->
        CASE i = 1 -> LS(1, Pt(10, 2, 0),  Pt(10, -2, 0), 2, TRUE,  "mirror")
          [] i = 2 -> LS(2, Pt(10, 6, 0),  Pt(10, 4, 0),  2, TRUE,  "solid")
          [] i = 3 -> LS(3, Pt(10, -4, 0), Pt(10, -6, 0), 2, FALSE, "")
          [] i = 4 -> LS(4, Pt(10, 1, 0),  Pt(10, -1, 1), 0, TRUE,  "mirror")
          [] i = 5 -> LS(5, Pt(15, 1, 0),  Pt(15, -1, 0), 2, TRUE,  "mirror")
          [] i = 6 -> LS(6, Pt(-2, 10, 0), Pt(2, 10, 0),  2, TRUE,  "mirror")
          [] i = 7 -> LS(7, Pt(10, 12, 0), Pt(10, 8, 0),  2, TRUE,  "mirror")
          [] i = 8 -> LS(8, Pt(10, -10, 0), Pt(10, -12, 0), 2, TRUE, "mirror")]

LandmarkIds == DOMAIN LineStrings

\* tf2::Vector3(tl_bl.x(), tl_bl.y(), tl_bl.z() + tl_height)
getTrafficMirrorTopLeft(traffic_mirror) ==
    Pt(traffic_mirror.front.x, traffic_mirror.front.y,
       traffic_mirror.front.z + traffic_mirror.height)

getTrafficMirrorBottomRight(traffic_mirror) ==
    Pt(traffic_mirror.back.x, traffic_mirror.back.y, traffic_mirror.back.z)

\* (top_left + bottom_right) / 2, kept doubled
getTrafficMirrorCenter2(traffic_mirror) ==
    LET tl == getTrafficMirrorTopLeft(traffic_mirror)
        br == getTrafficMirrorBottomRight(traffic_mirror)
    IN  Pt(tl.x + br.x, tl.y + br.y, tl.z + br.z)

-----------------------------------------------------------------------------
(* Camera poses: tf2::Transform map <- camera.  yaw counts quarter turns of  *)
(* the optical axis in the map plane: 0 = +x, 1 = +y, 2 = -x, 3 = -y.        *)

Pose(x, y, z, yaw) == [x |-> x, y |-> y, z |-> z, yaw |-> yaw]

\* camera_rotation_matrix * (0, 0, 1): the optical axis in the map frame
CameraZDir(tf) ==
    CASE tf.yaw = 0 -> Pt(1, 0, 0)
      [] tf.yaw = 1 -> Pt(0, 1, 0)
      [] tf.yaw = 2 -> Pt(-1, 0, 0)
      [] tf.yaw = 3 -> Pt(0, -1, 0)

\* tf_map2camera.inverse() * p: camera x is to the right, y down, z forward
ToCameraFrame(tf, p) ==
    LET f  == CameraZDir(tf)
        dx == p.x - tf.x
        dy == p.y - tf.y
        dz == p.z - tf.z
    IN  Pt(dx * f.y - dy * f.x, -dz, dx * f.x + dy * f.y)

-----------------------------------------------------------------------------
(* Camera model: sensor_msgs::CameraInfo of a pinhole camera *)

CameraInfo(width, height, fx, fy, cx, cy) ==
    [width |-> width, height |-> height, fx |-> fx, fy |-> fy, cx |-> cx, cy |-> cy]

\* project3dToPixel then unrectifyPoint, of the doubled point p2
calcRawImagePointFromPoint3D(cam, p2) ==
    [x |-> Rat(cam.fx * p2.x + cam.cx * p2.z, p2.z),
     y |-> Rat(cam.fy * p2.y + cam.cy * p2.z, p2.z)]

\* std::max(std::min(v, double(int(bound) - 1)), 0.0)
ClampCoord(v, bound) ==
    LET hi == bound - 1
        lo == IF v[1] > hi * v[2] THEN Rat(hi, 1) ELSE v
    IN  IF lo[1] < 0 THEN Rat(0, 1) ELSE lo

roundInImageFrame(cam, point) ==
    [x |-> ClampCoord(point.x, cam.width), y |-> ClampCoord(point.y, cam.height)]

\* sq_dist < max_distance_range^2, with p1 doubled (p1 = 2 * center)
isInDistanceRange(p1_2, p2, max_distance_range) ==
    LET ddx == p1_2.x - 2 * p2.x
        ddy == p1_2.y - 2 * p2.y
    IN  ddx * ddx + ddy * ddy < 4 * max_distance_range * max_distance_range

\* the direction of tl_yaw = atan2(dy, dx) + pi/2 (atan2(0, 0) = 0)
MirrorYawDir(traffic_mirror) ==
    LET dx == traffic_mirror.back.x - traffic_mirror.front.x
        dy == traffic_mirror.back.y - traffic_mirror.front.y
    IN  IF dx = 0 /\ dy = 0 THEN Pt(0, 1, 0) ELSE Pt(-dy, dx, 0)

\* acos(vec1 . vec2) < deg2rad(40) for the unit vectors along n and c
isInAngleRange(n, c) ==
    LET dot == n.x * c.x + n.y * c.y
    IN  /\ dot > 0
        /\ dot * dot * CosSqDen > CosSqNum * (n.x * n.x + n.y * n.y) * (c.x * c.x + c.y * c.y)

isInImageFrame(cam, point) ==
    IF point.z <= 0 THEN FALSE
    ELSE LET point2d == calcRawImagePointFromPoint3D(cam, Pt(2 * point.x, 2 * point.y, 2 * point.z))
         IN  /\ 0 <= point2d.x[1] /\ point2d.x[1] < cam.width * point2d.x[2]
             /\ 0 <= point2d.y[1] /\ point2d.y[1] < cam.height * point2d.y[2]

-----------------------------------------------------------------------------
(* ROI Projector: getTrafficMirrorRoi for one pose *)

Roi(id, x_offset, y_offset, width, height) ==
    [traffic_mirror_id |-> id, x_offset |-> x_offset, y_offset |-> y_offset,
     width |-> width, height |-> height]

Failed(id) == [ok |-> FALSE, roi |-> Roi(id, 0, 0, 0, 0)]

\* camera2tl -/+ (max_vibration_x, max_vibration_y, -/+ max_vibration_z), doubled:
\* sign is -1 for the top left corner and 1 for the bottom right one
EnlargedPoint2(config, camera2tl, sign) ==
    Pt(2 * camera2tl.x
         + sign * (Sin2Half(config.max_vibration_yaw) * camera2tl.z
                   + config.max_vibration_width),
       2 * camera2tl.y
         + sign * (Sin2Half(config.max_vibration_pitch) * camera2tl.z
                   + config.max_vibration_height),
       2 * camera2tl.z - config.max_vibration_depth)

\* point2d.x - roi.roi.x_offset, as a double
MinusOffset(v, offset) == Rat(v[1] - offset * v[2], v[2])

\* if (roi.roi.width < 1 || roi.roi.height < 1) return false; return true
CheckedRoi(id, x_offset, y_offset, width, height) ==
    IF ULess(width, 1) \/ ULess(height, 1) THEN Failed(id)
    ELSE [ok |-> TRUE, roi |-> Roi(id, x_offset, y_offset, width, height)]

\* the assignments of x_offset, y_offset, width and height from the two pixels
RoiOfPixels(id, tl2d, br2d, x_offset, y_offset, mode) ==
    CheckedRoi(id, x_offset, y_offset,
               ToUint32(MinusOffset(br2d.x, x_offset), mode),
               ToUint32(MinusOffset(br2d.y, y_offset), mode))

\* the two blocks of the projector, given the two enlarged points
RoiOfPoints(id, cam, point_tl, point_br, mode) ==
    IF point_tl.z <= 0 THEN Failed(id)
    ELSE IF point_br.z <= 0 THEN Failed(id)
    ELSE RoiOfPixels(id,
            roundInImageFrame(cam, calcRawImagePointFromPoint3D(cam, point_tl)),
            roundInImageFrame(cam, calcRawImagePointFromPoint3D(cam, point_br)),
            ToUint32(roundInImageFrame(cam, calcRawImagePointFromPoint3D(cam, point_tl)).x, mode),
            ToUint32(roundInImageFrame(cam, calcRawImagePointFromPoint3D(cam, point_tl)).y, mode),
            mode)

getTrafficMirrorRoi(tf_map2camera, cam, traffic_mirror, config, mode) ==
    RoiOfPoints(traffic_mirror.id, cam,
        EnlargedPoint2(config,
            ToCameraFrame(tf_map2camera, getTrafficMirrorTopLeft(traffic_mirror)), -1),
        EnlargedPoint2(config,
            ToCameraFrame(tf_map2camera, getTrafficMirrorBottomRight(traffic_mirror)), 1),
        mode)

-----------------------------------------------------------------------------
(* Multi-pose ROI aggregator: getTrafficMirrorRoi for a vector of poses *)

\* if (getTrafficMirrorRoi(...)) rois.push_back(roi)
PushIfOk(r, rest) == IF r.ok THEN <<r.roi>> \o rest ELSE rest

RECURSIVE CollectPoseRois(_, _, _, _, _, _)
\* the first loop: the ROIs of the poses tf_map2camera_vec[i..] that succeed
CollectPoseRois(tf_map2camera_vec, i, cam, traffic_mirror, config, mode) ==
    IF i > Len(tf_map2camera_vec) THEN <<>>
    ELSE PushIfOk(getTrafficMirrorRoi(tf_map2camera_vec[i], cam, traffic_mirror, config, mode),
                  CollectPoseRois(tf_map2camera_vec, i + 1, cam, traffic_mirror, config, mode))

\* one turn of the second loop, in uint32_t arithmetic
UnionStep(acc, roi) ==
    [x1 |-> UMin(acc.x1, roi.x_offset),
     x2 |-> UMax(acc.x2, roi.x_offset + roi.width),
     y1 |-> UMin(acc.y1, roi.y_offset),
     y2 |-> UMax(acc.y2, roi.y_offset + roi.height)]

RECURSIVE UnionRois(_, _, _)
\* the second loop: x1, x2, y1, y2 over rois[i..]
UnionRois(rois, i, acc) ==
    IF i > Len(rois) THEN acc
    ELSE UnionRois(rois, i + 1, UnionStep(acc, rois[i]))

\* out_roi = rois.front() with the offsets and extents of the union
RoiOfUnion(front, u) ==
    [ok |-> TRUE,
     roi |-> Roi(front.traffic_mirror_id, u.x1, u.y1, u.x2 - u.x1, u.y2 - u.y1)]

\* the aggregator, given the ROIs of the poses that succeeded
AggregateRois(rois, cam, id) ==
    IF rois = <<>> THEN Failed(id)
    ELSE RoiOfUnion(rois[1],
            UnionRois(rois, 1, [x1 |-> cam.width - 1, x2 |-> 0,
                                y1 |-> cam.height - 1, y2 |-> 0]))

getTrafficMirrorRoiVec(tf_map2camera_vec, cam, traffic_mirror, config, mode) ==
    AggregateRois(CollectPoseRois(tf_map2camera_vec, 1, cam, traffic_mirror, config, mode),
                  cam, traffic_mirror.id)

-----------------------------------------------------------------------------
(* Visibility Filter: getVisibleTrafficMirrors *)

\* mutation of SeenFrom: the pose is skipped unless both points are in the image
SeenFromBothInFrame(traffic_mirror, tf_map2camera, cam, max_detection_range) ==
    IF ~isInDistanceRange(getTrafficMirrorCenter2(traffic_mirror), tf_map2camera,
                          max_detection_range)
    THEN FALSE
    ELSE IF ~isInAngleRange(MirrorYawDir(traffic_mirror), CameraZDir(tf_map2camera))
    THEN FALSE
    ELSE ~(\/ ~isInImageFrame(cam, ToCameraFrame(tf_map2camera,
                                     getTrafficMirrorTopLeft(traffic_mirror)))
           \/ ~isInImageFrame(cam, ToCameraFrame(tf_map2camera,
                                     getTrafficMirrorBottomRight(traffic_mirror))))

\* the body of the loop over poses: the three tests for one pose
SeenFrom(traffic_mirror, tf_map2camera, cam, max_detection_range) ==
    IF ~isInDistanceRange(getTrafficMirrorCenter2(traffic_mirror), tf_map2camera,
                          max_detection_range)
    THEN FALSE
    ELSE IF ~isInAngleRange(MirrorYawDir(traffic_mirror), CameraZDir(tf_map2camera))
    THEN FALSE
    ELSE ~(/\ ~isInImageFrame(cam, ToCameraFrame(tf_map2camera,
                                     getTrafficMirrorTopLeft(traffic_mirror)))
           /\ ~isInImageFrame(cam, ToCameraFrame(tf_map2camera,
                                     getTrafficMirrorBottomRight(traffic_mirror))))

RECURSIVE SeenFromSomePose(_, _, _, _, _)
\* the loop over tf_map2camera_vec[i..], left at the first pose that passes
SeenFromSomePose(traffic_mirror, tf_map2camera_vec, i, cam, max_detection_range) ==
    IF i > Len(tf_map2camera_vec) THEN FALSE
    ELSE IF SeenFrom(traffic_mirror, tf_map2camera_vec[i], cam, max_detection_range) THEN TRUE
    ELSE SeenFromSomePose(traffic_mirror, tf_map2camera_vec, i + 1, cam, max_detection_range)

RECURSIVE InIdOrder(_)
\* the iteration order of TrafficMirrorSet: ascending line string id
InIdOrder(ids) ==
    IF ids = {} THEN <<>>
    ELSE LET m == CHOOSE a \in ids : \A b \in ids : a <= b
         IN  <<m>> \o InIdOrder(ids \ {m})

\* the tests of one turn of the loop over the traffic mirrors
IsVisible(traffic_mirror, tf_map2camera_vec, cam, max_detection_range) ==
    IF traffic_mirror.has_subtype = FALSE \/ traffic_mirror.subtype = "solid" THEN FALSE
    ELSE SeenFromSomePose(traffic_mirror, tf_map2camera_vec, 1, cam, max_detection_range)

RECURSIVE FilterVisible(_, _, _, _, _)
FilterVisible(order, i, tf_map2camera_vec, cam, max_detection_range) ==
    IF i > Len(order) THEN <<>>
    ELSE (IF IsVisible(LineStrings[order[i]], tf_map2camera_vec, cam, max_detection_range)
          THEN <<order[i]>> ELSE <<>>)
         \o FilterVisible(order, i + 1, tf_map2camera_vec, cam, max_detection_range)

\* the ids of the visible traffic mirrors, in the order they are pushed back
getVisibleTrafficMirrors(all_traffic_mirrors, tf_map2camera_vec, cam, max_detection_range) ==
    FilterVisible(InIdOrder(all_traffic_mirrors), 1, tf_map2camera_vec, cam,
                  max_detection_range)

-----------------------------------------------------------------------------
(* Configuration: the constructor *)

Config(pitch, yaw, height, width, depth, min_off, max_off, sample_len, range) ==
    [max_vibration_pitch |-> pitch, max_vibration_yaw |-> yaw,
     max_vibration_height |-> height, max_vibration_width |-> width,
     max_vibration_depth |-> depth, min_timestamp_offset |-> min_off,
     max_timestamp_offset |-> max_off, timestamp_sample_len |-> sample_len,
     max_detection_range |-> range]

\* mutation of MapBasedDetector: equal offsets are reset as well
MapBasedDetectorResetsEqual(params) ==
    LET c1 == IF params.max_detection_range <= 0
              THEN [params EXCEPT !.max_detection_range = default_max_detection_range]
              ELSE params
        c2 == IF c1.timestamp_sample_len <= 0
              THEN [c1 EXCEPT !.timestamp_sample_len = default_timestamp_sample_len]
              ELSE c1
    IN  IF c2.max_timestamp_offset <= c2.min_timestamp_offset
        THEN [c2 EXCEPT !.max_timestamp_offset = 0, !.min_timestamp_offset = 0]
        ELSE c2

\* the three validations of the constructor, in the order of the code
MapBasedDetector(params) ==
    LET c1 == IF params.max_detection_range <= 0
              THEN [params EXCEPT !.max_detection_range = default_max_detection_range]
              ELSE params
        c2 == IF c1.timestamp_sample_len <= 0
              THEN [c1 EXCEPT !.timestamp_sample_len = default_timestamp_sample_len]
              ELSE c1
    IN  IF c2.max_timestamp_offset < c2.min_timestamp_offset
        THEN [c2 EXCEPT !.max_timestamp_offset = 0, !.min_timestamp_offset = 0]
        ELSE c2

\* declared parameters that vary the vibration terms: none, each one alone,
\* the two linear image-plane terms, all of them
DeclaredVibration ==
    {Config(0, 0, 0, 0, 0, 0, 1, 1, 15),
     Config(1, 0, 0, 0, 0, 0, 1, 1, 15),
     Config(0, 1, 0, 0, 0, 0, 1, 1, 15),
     Config(0, 0, 2, 0, 0, 0, 1, 1, 15),
     Config(0, 0, 0, 2, 0, 0, 1, 1, 15),
     Config(0, 0, 0, 0, 4, 0, 1, 1, 15),
     Config(0, 0, 2, 2, 0, 0, 1, 1, 15),
     Config(1, 1, 2, 2, 4, 0, 1, 1, 15)}

Offsets == {-1, 0, 1}

\* declared parameters that vary the timing terms and the detection range
DeclaredTiming ==
    {Config(0, 0, 0, 0, 0, lo, hi, len, 15) :
        lo \in Offsets, hi \in Offsets, len \in (-1)..MaxSampleLen}
    \cup {Config(0, 0, 0, 0, 0, 0, 0, 1, r) : r \in {-1, 0, 200}}
    \cup {Config(1, 1, 2, 2, 4, 1, -1, 0, 0)}

-----------------------------------------------------------------------------
(* Maps and routes: HADMapBin and LaneletRoute messages *)

MapIds == {1, 2}

\* laneletLayer of a map: lanelet id -> the line strings of the "traffic_mirrors"
\* parameter of its AutowareTrafficMirror regulatory elements
laneletLayer(m) ==
    IF m = 1 THEN (11 :> {1, 2}) @@ (12 :> {3, 4}) @@ (13 :> {5, 6, 7, 8}) @@ (15 :> {})
    ELSE (11 :> {1, 4}) @@ (14 :> {6, 7})

\* the primitive ids of the route messages
Routes == {<<11>>, <<12, 13>>, <<14>>, <<15>>, <<11, 99>>}

\* the set filled by the loops over autowareTrafficMirrors(lanelets)
TrafficMirrorsOf(m, lanelets) ==
    UNION {laneletLayer(m)[l] : l \in lanelets}

-----------------------------------------------------------------------------
(* Pose Source: tf_buffer_ holds the poses of a trajectory for the times   *)
(* lo .. hi; a lookup outside of them throws tf2::TransformException.      *)

TfBuffer(lo, hi, traj) == [lo |-> lo, hi |-> hi, traj |-> traj]

\* every trajectory is at the map origin, looking along +x, at time 100
Trajectories == {"climb", "turn", "drive"}

Trajectory(traj, t) ==
    CASE traj = "climb"  -> Pose(0, 0, 5 * (t - 100), 0)
      [] traj = "turn"   -> Pose(0, 0, 0, (t - 100) % 4)
      [] traj = "drive"  -> Pose(3 * (t - 100), 0, 0, 0)

\* <<>> when lookupTransform throws, <<tf>> otherwise
getTransform(t, tf_buffer) ==
    IF tf_buffer.lo <= t /\ t <= tf_buffer.hi
    THEN <<Trajectory(tf_buffer.traj, t)>>
    ELSE <<>>

-----------------------------------------------------------------------------
(* Detection Driver: cameraInfoCallback *)

Stamps == 100..(100 + MaxStampStep)

Cameras == {CameraInfo(40, 40, 20, 20, 20, 20)}

CameraInfoMsg(stamp, cam) == [stamp |-> stamp, cam |-> cam]

\* the record of a callback that looks nothing up and publishes nothing: the
\* map and route callbacks, and the state before any callback
NoPass ==
    [called |-> FALSE, input_msg |-> CameraInfoMsg(0, CameraInfo(0, 0, 0, 0, 0, 0)),
     tf_buffer |-> TfBuffer(1, 0, "climb"),
     queries |-> <<>>, lookups |-> 0, nominal |-> <<>>, tf_map2camera_vec |-> <<>>,
     subset |-> "none", visible |-> <<>>,
     roi_pub |-> <<>>, expect_roi_pub |-> <<>>, viz_pub |-> <<>>]

\* one turn of the window loop: the time queried, and the pose if the lookup succeeds
WindowStep(t, tf, rest) ==
    [queries |-> <<t>> \o rest.queries, vec |-> tf \o rest.vec]

RECURSIVE SampleWindow(_, _, _)
\* for (auto t = t1; t <= t2; t += interval): the times queried and the poses kept
SampleWindow(t, t2, tf_buffer) ==
    IF ~(t <= t2) THEN [queries |-> <<>>, vec |-> <<>>]
    ELSE WindowStep(t, getTransform(t, tf_buffer),
                    SampleWindow(t + interval, t2, tf_buffer))

\* Config expect_roi_cfg = config_ with the five vibration terms set to 0
ExpectRoiCfg(config) ==
    [config EXCEPT !.max_vibration_depth = 0, !.max_vibration_height = 0,
                   !.max_vibration_width = 0, !.max_vibration_yaw = 0,
                   !.max_vibration_pitch = 0]

\* mutation of PushPair: the expected ROI is pushed although the rough one failed
PushPairUnpaired(expect_roi, rough_roi, rest) ==
    IF ~expect_roi.ok THEN rest
    ELSE [rough |-> IF rough_roi.ok THEN <<rough_roi.roi>> \o rest.rough ELSE rest.rough,
          expect |-> <<expect_roi.roi>> \o rest.expect]

\* one turn of the loop over the visible traffic mirrors: both ROIs or neither
PushPair(expect_roi, rough_roi, rest) ==
    IF ~expect_roi.ok THEN rest
    ELSE IF ~rough_roi.ok THEN rest
    ELSE [rough |-> <<rough_roi.roi>> \o rest.rough,
          expect |-> <<expect_roi.roi>> \o rest.expect]

RECURSIVE CollectRois(_, _, _, _, _, _, _)
\* the loop over visible_traffic_mirrors[i..]: the (rough, expect) pairs pushed back
CollectRois(visible, i, tf_map2camera, tf_map2camera_vec, cam, config, mode) ==
    IF i > Len(visible) THEN [rough |-> <<>>, expect |-> <<>>]
    ELSE PushPair(
            getTrafficMirrorRoi(tf_map2camera, cam, LineStrings[visible[i]],
                                ExpectRoiCfg(config), mode),
            getTrafficMirrorRoiVec(tf_map2camera_vec, cam, LineStrings[visible[i]],
                                   config, mode),
            CollectRois(visible, i + 1, tf_map2camera, tf_map2camera_vec, cam, config, mode))

\* 2 * (tf_map2camera.inverse() * tl_central_point)
CenterInCamera2(tf_map2camera, c2) ==
    ToCameraFrame(Pose(2 * tf_map2camera.x, 2 * tf_map2camera.y, 2 * tf_map2camera.z,
                       tf_map2camera.yaw), c2)

\* publishVisibleTrafficMirrors: one marker per visible traffic mirror
Markers(tf_map2camera, visible) ==
    [i \in 1..Len(visible) |->
        [id |-> visible[i],
         point2 |-> CenterInCamera2(tf_map2camera,
                                    getTrafficMirrorCenter2(LineStrings[visible[i]]))]]

\* mutation of SelectSubset: the full map is preferred to the route
SelectSubsetAllFirst(route_ptr, all_ptr) ==
    IF all_ptr # Null THEN "all"
    ELSE IF route_ptr # Null THEN "route"
    ELSE "none"

\* which set the Visibility Filter is run on: the if / else if / else chain
SelectSubset(route_ptr, all_ptr) ==
    IF route_ptr # Null THEN "route"
    ELSE IF all_ptr # Null THEN "all"
    ELSE "none"

\* the record of a camera info callback that has just been entered
Started(input_msg, tf_buffer) ==
    [NoPass EXCEPT !.called = TRUE, !.input_msg = input_msg, !.tf_buffer = tf_buffer]

\* mutation of WithLookups: an empty pose vector is not filled with the nominal pose
WithLookupsNoFallback(p, window, nominal) ==
    [p EXCEPT !.queries = window.queries,
              !.lookups = Len(window.queries) + 1,
              !.nominal = nominal,
              !.tf_map2camera_vec = window.vec]

\* the lookups done: the window's, then the one at the stamp of the frame
WithLookups(p, window, nominal) ==
    [p EXCEPT !.queries = window.queries,
              !.lookups = Len(window.queries) + 1,
              !.nominal = nominal,
              !.tf_map2camera_vec = IF nominal # <<>> /\ window.vec = <<>>
                                    THEN nominal ELSE window.vec]

LookUpPoses(p, config) ==
    WithLookups(p,
        SampleWindow(p.input_msg.stamp + config.min_timestamp_offset,
                     p.input_msg.stamp + config.max_timestamp_offset, p.tf_buffer),
        getTransform(p.input_msg.stamp, p.tf_buffer))

\* mutation of Published: nothing is published when no ROI pair was pushed
PublishedUnlessEmpty(p, subset, visible, rois) ==
    IF rois.rough = <<>> THEN [p EXCEPT !.subset = subset, !.visible = visible]
    ELSE [p EXCEPT !.subset = subset,
                   !.visible = visible,
                   !.roi_pub = <<[stamp |-> p.input_msg.stamp, rois |-> rois.rough]>>,
                   !.expect_roi_pub = <<[stamp |-> p.input_msg.stamp, rois |-> rois.expect]>>,
                   !.viz_pub = <<Markers(p.tf_map2camera_vec[1], visible)>>]

\* the three publish calls that end the callback
Published(p, subset, visible, rois) ==
    [p EXCEPT !.subset = subset,
              !.visible = visible,
              !.roi_pub = <<[stamp |-> p.input_msg.stamp, rois |-> rois.rough]>>,
              !.expect_roi_pub = <<[stamp |-> p.input_msg.stamp, rois |-> rois.expect]>>,
              !.viz_pub = <<Markers(p.tf_map2camera_vec[1], visible)>>]

\* the loop over the visible traffic mirrors, then the publication
ProjectAndPublish(p, subset, visible, config, mode) ==
    Published(p, subset, visible,
        CollectRois(visible, 1, p.nominal[1], p.tf_map2camera_vec, p.input_msg.cam,
                    config, mode))

\* the Visibility Filter on the chosen set, and what follows it
FilterSubset(p, subset, config, mode, all_ptr, route_ptr) ==
    IF subset = "none" THEN p
    ELSE ProjectAndPublish(p, subset,
            getVisibleTrafficMirrors(
                Deref(IF subset = "route" THEN route_ptr ELSE all_ptr),
                p.tf_map2camera_vec, p.input_msg.cam, config.max_detection_range),
            config, mode)

\* the callback from the nominal lookup on
FilterAndPublish(p, config, mode, all_ptr, route_ptr) ==
    IF p.nominal = <<>> THEN p
    ELSE FilterSubset(p, SelectSubset(route_ptr, all_ptr), config, mode, all_ptr, route_ptr)

\* the whole callback: what it looked up, computed and published
DetectionPass(input_msg, tf_buffer, config, mode, all_ptr, route_ptr) ==
    IF all_ptr = Null /\ route_ptr = Null THEN Started(input_msg, tf_buffer)
    ELSE FilterAndPublish(LookUpPoses(Started(input_msg, tf_buffer), config),
                          config, mode, all_ptr, route_ptr)

\* the buffers a frame can meet: nothing, or the poses of a trajectory over an
\* interval of the times the callback can ask for
TfBuffers(stamp, config) ==
    LET first == Min(stamp, stamp + config.min_timestamp_offset)
        last  == Max(stamp, stamp + config.max_timestamp_offset)
    IN  {TfBuffer(1, 0, "climb")} \cup
        {b \in {TfBuffer(lo, hi, traj) : lo \in first..last, hi \in first..last,
                                         traj \in Trajectories} : b.lo <= b.hi}

-----------------------------------------------------------------------------
(* The node *)

\* no callback is under way
Idle == [callback |-> "none", pending |-> {}]

\* a callback that has reset its set pointer and has the line strings ids to insert
Filling(callback, ids) ==
    IF ids = {} THEN Idle ELSE [callback |-> callback, pending |-> ids]

\* mutation of MutuallyExclusive: the callbacks are in a reentrant callback group
Reentrant(r) == TRUE

\* the three subscriptions are in the node's default callback group, which is
\* mutually exclusive: a callback starts only when none of them is under way
MutuallyExclusive(r) == r.callback = "none"

InitWith(params, builds) ==
    /\ declared \in params
    /\ config_ = MapBasedDetector(declared)
    /\ narrowing \in builds
    /\ lanelet_map_ptr_ = 0
    /\ all_traffic_mirrors_ptr_ = Null
    /\ route_traffic_mirrors_ptr_ = Null
    /\ running = Idle
    /\ pass = NoPass

Init == InitWith(DeclaredVibration, {"wrap", "saturate"})

InitTiming == InitWith(DeclaredTiming, {"wrap"})

mapCallback ==
    \E m \in MapIds :
        /\ MutuallyExclusive(running)
        /\ lanelet_map_ptr_' = m
        /\ all_traffic_mirrors_ptr_' = Ptr(TrafficMirrorsOf(m, DOMAIN laneletLayer(m)))
        /\ pass' = NoPass
        /\ UNCHANGED <<declared, config_, narrowing, route_traffic_mirrors_ptr_, running>>

\* the set the route callback leaves in route_traffic_mirrors_ptr_
RouteResult(map, route, route_ptr) ==
    IF map = 0 THEN route_ptr
    ELSE IF \E i \in 1..Len(route) : route[i] \notin DOMAIN laneletLayer(map)
    THEN route_ptr
    ELSE Ptr(TrafficMirrorsOf(map, {route[i] : i \in 1..Len(route)}))

routeCallback ==
    \E route \in Routes :
        /\ MutuallyExclusive(running)
        /\ route_traffic_mirrors_ptr_' =
               RouteResult(lanelet_map_ptr_, route, route_traffic_mirrors_ptr_)
        /\ pass' = NoPass
        /\ UNCHANGED <<declared, config_, narrowing, lanelet_map_ptr_,
                       all_traffic_mirrors_ptr_, running>>

cameraInfoCallback ==
    \E stamp \in Stamps, cam \in Cameras :
        \E tf_buffer \in TfBuffers(stamp, config_) :
            /\ MutuallyExclusive(running)
            /\ pass' = DetectionPass(CameraInfoMsg(stamp, cam), tf_buffer, config_, narrowing,
                                     all_traffic_mirrors_ptr_, route_traffic_mirrors_ptr_)
            /\ UNCHANGED <<declared, config_, narrowing, lanelet_map_ptr_,
                           all_traffic_mirrors_ptr_, route_traffic_mirrors_ptr_, running>>

Next == mapCallback \/ routeCallback \/ cameraInfoCallback

Spec == Init /\ [][Next]_vars

SpecTiming == InitTiming /\ [][Next]_vars

-----------------------------------------------------------------------------
(* The map and route callbacks statement by statement: each first points   *)
(* its member pointer to a new empty set and then inserts the line strings *)
(* into that set one by one.                                               *)

\* mapCallback up to all_traffic_mirrors_ptr_ = std::make_shared<TrafficMirrorSet>()
mapCallbackReset ==
    \E m \in MapIds :
        /\ MutuallyExclusive(running)
        /\ lanelet_map_ptr_' = m
        /\ all_traffic_mirrors_ptr_' = Ptr({})
        /\ running' = Filling("map", TrafficMirrorsOf(m, DOMAIN laneletLayer(m)))
        /\ pass' = NoPass
        /\ UNCHANGED <<declared, config_, narrowing, route_traffic_mirrors_ptr_>>

\* all_traffic_mirrors_ptr_->insert(*ls)
mapCallbackInsert ==
    \E ls \in running.pending :
        /\ running.callback = "map"
        /\ all_traffic_mirrors_ptr_' = Ptr(Deref(all_traffic_mirrors_ptr_) \cup {ls})
        /\ running' = Filling("map", running.pending \ {ls})
        /\ UNCHANGED <<declared, config_, narrowing, lanelet_map_ptr_,
                       route_traffic_mirrors_ptr_, pass>>

\* routeCallback up to route_traffic_mirrors_ptr_ = std::make_shared<TrafficMirrorSet>(),
\* or to one of its two early returns
routeCallbackReset ==
    \E route \in Routes :
        /\ MutuallyExclusive(running)
        /\ IF \/ lanelet_map_ptr_ = 0
              \/ \E i \in 1..Len(route) : route[i] \notin DOMAIN laneletLayer(lanelet_map_ptr_)
           THEN UNCHANGED <<route_traffic_mirrors_ptr_, running>>
           ELSE /\ route_traffic_mirrors_ptr_' = Ptr({})
                /\ running' = Filling("route",
                       TrafficMirrorsOf(lanelet_map_ptr_, {route[i] : i \in 1..Len(route)}))
        /\ pass' = NoPass
        /\ UNCHANGED <<declared, config_, narrowing, lanelet_map_ptr_,
                       all_traffic_mirrors_ptr_>>

\* route_traffic_mirrors_ptr_->insert(*ls)
routeCallbackInsert ==
    \E ls \in running.pending :
        /\ running.callback = "route"
        /\ route_traffic_mirrors_ptr_' = Ptr(Deref(route_traffic_mirrors_ptr_) \cup {ls})
        /\ running' = Filling("route", running.pending \ {ls})
        /\ UNCHANGED <<declared, config_, narrowing, lanelet_map_ptr_,
                       all_traffic_mirrors_ptr_, pass>>

\* the configurations of the statement-level specification
DeclaredSteps == {Config(0, 0, 0, 0, 0, 0, 1, 1, 15), Config(0, 0, 2, 2, 0, 0, 0, 1, 15)}

InitSteps == InitWith(DeclaredSteps, {"wrap"})

NextSteps ==
    \/ mapCallbackReset
    \/ mapCallbackInsert
    \/ routeCallbackReset
    \/ routeCallbackInsert
    \/ cameraInfoCallback

SpecSteps == InitSteps /\ [][NextSteps]_vars

-----------------------------------------------------------------------------
(* Properties.  In a state with pass.called the callback that ran last is  *)
(* cameraInfoCallback, so config_ and the two set pointers are those it    *)
(* read.                                                                   *)

\* the last callback published its ROI arrays
PublishedRois == pass.roi_pub # <<>> /\ pass.expect_roi_pub # <<>>

RoughRois == pass.roi_pub[1].rois

ExpectRois == pass.expect_roi_pub[1].rois

\* the zero-margin projection at the nominal pose succeeds for line string id
ExpectOk(id) ==
    getTrafficMirrorRoi(pass.nominal[1], pass.input_msg.cam, LineStrings[id],
                        ExpectRoiCfg(config_), narrowing).ok

\* the aggregation over the candidate poses succeeds for line string id
RoughOk(id) ==
    getTrafficMirrorRoiVec(pass.tf_map2camera_vec, pass.input_msg.cam, LineStrings[id],
                           config_, narrowing).ok

BothOk(id) == ExpectOk(id) /\ RoughOk(id)

\* a uint32_t value as the mathematical integer k * 2^32 + r, written <<k, r>>
MathU(v) == <<IF v < 0 THEN 1 ELSE 0, v>>

\* the mathematical sum of two uint32_t values
MathSum(a, b) == <<MathU(a)[1] + MathU(b)[1], a + b>>

\* p <= q for two mathematical integers <<k, r>> with |r| < 2^31
MathLeq(p, q) == p[1] < q[1] \/ (p[1] = q[1] /\ p[2] <= q[2])

\* C1: whenever a detection pass publishes, the rough and the expected ROI
\* sequences have the same length and the same landmark id at every index, and
\* the ids are exactly those of the visible landmarks for which both the
\* zero-margin nominal-pose projection and the multi-pose aggregation succeed,
\* in the order of the Visibility Filter's output.
ClaimC1_PairedRois ==
    /\ (pass.roi_pub # <<>>) = (pass.expect_roi_pub # <<>>)
    /\ PublishedRois =>
          /\ Len(RoughRois) = Len(ExpectRois)
          /\ \A i \in 1..Len(RoughRois) :
                RoughRois[i].traffic_mirror_id = ExpectRois[i].traffic_mirror_id
          /\ [i \in 1..Len(RoughRois) |-> RoughRois[i].traffic_mirror_id]
                = SelectSeq(pass.visible, BothOk)

\* a pass that published pairs and dropped a visible landmark whose expected
\* ROI exists but whose rough ROI does not
WitnessC1 ==
    /\ PublishedRois
    /\ Len(RoughRois) >= 1
    /\ \E i \in 1..Len(pass.visible) : ExpectOk(pass.visible[i]) /\ ~RoughOk(pass.visible[i])

\* the rectangle of roi lies in the image and is at least one pixel wide and high
RoiInsideImage(roi, cam) ==
    /\ MathLeq(<<0, 1>>, MathU(roi.width))
    /\ MathLeq(<<0, 1>>, MathU(roi.height))
    /\ MathLeq(<<0, 0>>, MathU(roi.x_offset))
    /\ MathLeq(<<0, 0>>, MathU(roi.y_offset))
    /\ MathLeq(MathSum(roi.x_offset, roi.width), <<0, cam.width>>)
    /\ MathLeq(MathSum(roi.y_offset, roi.height), <<0, cam.height>>)

\* C2: every ROI a detection pass emits, rough or expected, has width >= 1,
\* height >= 1, non-negative offsets, x_offset + width <= image_width and
\* y_offset + height <= image_height, the sums being mathematical integers.
ClaimC2_RoisInsideImage ==
    PublishedRois =>
        /\ \A i \in 1..Len(RoughRois) : RoiInsideImage(RoughRois[i], pass.input_msg.cam)
        /\ \A i \in 1..Len(ExpectRois) : RoiInsideImage(ExpectRois[i], pass.input_msg.cam)

\* C3: a detection pass runs the Visibility Filter on the route subset if one is
\* loaded, otherwise on the full-map subset if one is loaded; when neither is
\* loaded it publishes no ROI message and no marker message and looks no pose up.
ClaimC3_SubsetPreference ==
    pass.called =>
        /\ (route_traffic_mirrors_ptr_ # Null /\ pass.nominal # <<>>) =>
              /\ pass.subset = "route"
              /\ pass.visible = getVisibleTrafficMirrors(Deref(route_traffic_mirrors_ptr_),
                                    pass.tf_map2camera_vec, pass.input_msg.cam,
                                    config_.max_detection_range)
        /\ (route_traffic_mirrors_ptr_ = Null /\ all_traffic_mirrors_ptr_ # Null
            /\ pass.nominal # <<>>) =>
              /\ pass.subset = "all"
              /\ pass.visible = getVisibleTrafficMirrors(Deref(all_traffic_mirrors_ptr_),
                                    pass.tf_map2camera_vec, pass.input_msg.cam,
                                    config_.max_detection_range)
        /\ (route_traffic_mirrors_ptr_ = Null /\ all_traffic_mirrors_ptr_ = Null) =>
              /\ pass.roi_pub = <<>> /\ pass.expect_roi_pub = <<>> /\ pass.viz_pub = <<>>
              /\ pass.lookups = 0 /\ pass.queries = <<>> /\ pass.nominal = <<>>

\* a pass that published with both subsets loaded, where the full map would
\* have given other visible landmarks than the route
WitnessC3 ==
    /\ pass.called /\ PublishedRois
    /\ route_traffic_mirrors_ptr_ # Null /\ all_traffic_mirrors_ptr_ # Null
    /\ pass.visible # <<>>
    /\ pass.visible # getVisibleTrafficMirrors(Deref(all_traffic_mirrors_ptr_),
                          pass.tf_map2camera_vec, pass.input_msg.cam,
                          config_.max_detection_range)

\* the set the last pass ran the Visibility Filter on
FilteredSet ==
    IF route_traffic_mirrors_ptr_ # Null THEN Deref(route_traffic_mirrors_ptr_)
    ELSE Deref(all_traffic_mirrors_ptr_)

StateLoaded == all_traffic_mirrors_ptr_ # Null \/ route_traffic_mirrors_ptr_ # Null

\* the Pose Source's answer at the stamp of the last frame
NominalLookup == getTransform(pass.input_msg.stamp, pass.tf_buffer)

\* the query times t + min_offset + k * timestamp_sample_len up to t + max_offset
ClaimedQueryTimes ==
    LET first == pass.input_msg.stamp + config_.min_timestamp_offset
        last  == pass.input_msg.stamp + config_.max_timestamp_offset
        n     == IF last < first THEN 0
                 ELSE (last - first) \div config_.timestamp_sample_len + 1
    IN  [k \in 1..n |-> first + (k - 1) * config_.timestamp_sample_len]

LookupSucceeds(t) == getTransform(t, pass.tf_buffer) # <<>>

\* the poses of the lookups at the times qs that succeed, in the order of qs
PosesAt(qs) ==
    LET ok == SelectSeq(qs, LookupSucceeds)
    IN  [i \in 1..Len(ok) |-> getTransform(ok[i], pass.tf_buffer)[1]]

\* C4: for a frame with stamp t the Pose Source is queried at
\* t + min_timestamp_offset + k * timestamp_sample_len, k = 0, 1, ..., while the
\* time is <= t + max_timestamp_offset, and the candidate pose list holds, in
\* that order, exactly the poses of the lookups that succeeded.
ClaimC4_WindowSpacing ==
    (pass.called /\ StateLoaded) =>
        /\ pass.queries = ClaimedQueryTimes
        /\ (NominalLookup # <<>> /\ PosesAt(ClaimedQueryTimes) # <<>>) =>
              pass.tf_map2camera_vec = PosesAt(ClaimedQueryTimes)

\* C5: with landmark state loaded, a pass whose lookup at the frame's stamp
\* fails publishes nothing, whatever the window gave; a pass whose lookup
\* succeeds while no window lookup did runs on the one-element list of the
\* nominal pose; no pass that publishes ran on an empty pose list.
ClaimC5_NominalLookup ==
    (pass.called /\ StateLoaded) =>
        /\ NominalLookup = <<>> =>
              pass.roi_pub = <<>> /\ pass.expect_roi_pub = <<>> /\ pass.viz_pub = <<>>
        /\ NominalLookup # <<>> =>
              /\ PublishedRois /\ pass.viz_pub # <<>>
              /\ pass.tf_map2camera_vec # <<>>
              /\ (\A i \in 1..Len(pass.queries) : ~LookupSucceeds(pass.queries[i])) =>
                    pass.tf_map2camera_vec = NominalLookup

\* a pass that published although every lookup of a non-empty window failed
WitnessC5 ==
    /\ pass.called /\ StateLoaded /\ PublishedRois
    /\ pass.queries # <<>>
    /\ \A i \in 1..Len(pass.queries) : ~LookupSucceeds(pass.queries[i])
    /\ NominalLookup # <<>>

\* rectangle outer contains rectangle inner, as sets of pixels
RoiContains(outer, inner) ==
    /\ MathLeq(MathU(outer.x_offset), MathU(inner.x_offset))
    /\ MathLeq(MathU(outer.y_offset), MathU(inner.y_offset))
    /\ MathLeq(MathSum(inner.x_offset, inner.width), MathSum(outer.x_offset, outer.width))
    /\ MathLeq(MathSum(inner.y_offset, inner.height), MathSum(outer.y_offset, outer.height))

\* what the single-pose projector gives for line string id at pose i of the last pass
PoseRoi(id, i, config) ==
    getTrafficMirrorRoi(pass.tf_map2camera_vec[i], pass.input_msg.cam, LineStrings[id],
                        config, narrowing)

\* what the aggregator gives for line string id over the poses of the last pass
AggregateRoi(id, config) ==
    getTrafficMirrorRoiVec(pass.tf_map2camera_vec, pass.input_msg.cam, LineStrings[id],
                           config, narrowing)

OkPoses(id, config) ==
    {i \in 1..Len(pass.tf_map2camera_vec) : PoseRoi(id, i, config).ok}

\* C6: the aggregator fails exactly when the projector fails for every pose;
\* when it succeeds its rectangle carries the landmark's id, contains the
\* rectangle of every pose that succeeds and is the smallest such rectangle.
ClaimC6_AggregateIsUnion ==
    (pass.called /\ pass.tf_map2camera_vec # <<>>) =>
        \A id \in LandmarkIds :
            /\ AggregateRoi(id, config_).ok = (OkPoses(id, config_) # {})
            /\ AggregateRoi(id, config_).ok =>
                  /\ AggregateRoi(id, config_).roi.traffic_mirror_id = id
                  /\ \A i \in OkPoses(id, config_) :
                        RoiContains(AggregateRoi(id, config_).roi, PoseRoi(id, i, config_).roi)
                  /\ \E i \in OkPoses(id, config_) :
                        AggregateRoi(id, config_).roi.x_offset
                            = PoseRoi(id, i, config_).roi.x_offset
                  /\ \E i \in OkPoses(id, config_) :
                        AggregateRoi(id, config_).roi.y_offset
                            = PoseRoi(id, i, config_).roi.y_offset
                  /\ \E i \in OkPoses(id, config_) :
                        MathSum(AggregateRoi(id, config_).roi.x_offset,
                                AggregateRoi(id, config_).roi.width)
                            = MathSum(PoseRoi(id, i, config_).roi.x_offset,
                                      PoseRoi(id, i, config_).roi.width)
                  /\ \E i \in OkPoses(id, config_) :
                        MathSum(AggregateRoi(id, config_).roi.y_offset,
                                AggregateRoi(id, config_).roi.height)
                            = MathSum(PoseRoi(id, i, config_).roi.y_offset,
                                      PoseRoi(id, i, config_).roi.height)

\* the three tests of the Visibility Filter for line string id at pose tf
PoseSees(id, tf) ==
    LET tl == getTrafficMirrorTopLeft(LineStrings[id])
        br == getTrafficMirrorBottomRight(LineStrings[id])
        r  == config_.max_detection_range
    IN  /\ (tl.x + br.x - 2 * tf.x) * (tl.x + br.x - 2 * tf.x)
             + (tl.y + br.y - 2 * tf.y) * (tl.y + br.y - 2 * tf.y) < 4 * r * r
        /\ isInAngleRange(MirrorYawDir(LineStrings[id]), CameraZDir(tf))
        /\ \/ isInImageFrame(pass.input_msg.cam, ToCameraFrame(tf, tl))
           \/ isInImageFrame(pass.input_msg.cam, ToCameraFrame(tf, br))

IsReported(id) == \E i \in 1..Len(pass.visible) : pass.visible[i] = id

\* C7: the Visibility Filter reports a landmark exactly when its subtype is
\* present and not "solid" and some candidate pose passes the range, the angle
\* and the frame test together; every landmark is reported at most once, in
\* ascending id order, and every emitted ROI belongs to a reported landmark.
ClaimC7_VisibilityFilter ==
    (pass.called /\ PublishedRois) =>
        /\ \A id \in FilteredSet :
              IsReported(id) =
                 (/\ LineStrings[id].has_subtype
                  /\ LineStrings[id].subtype # "solid"
                  /\ \E k \in 1..Len(pass.tf_map2camera_vec) :
                        PoseSees(id, pass.tf_map2camera_vec[k]))
        /\ \A i \in 1..Len(pass.visible) : pass.visible[i] \in FilteredSet
        /\ \A i, j \in 1..Len(pass.visible) : i < j => pass.visible[i] < pass.visible[j]
        /\ \A i \in 1..Len(RoughRois) : IsReported(RoughRois[i].traffic_mirror_id)
        /\ \A i \in 1..Len(ExpectRois) : IsReported(ExpectRois[i].traffic_mirror_id)

\* a pass over a set with a solid landmark, a landmark seen only from a later
\* pose, and a landmark reported with one of its points outside the image
WitnessC7 ==
    /\ pass.called /\ PublishedRois
    /\ \E id \in FilteredSet : LineStrings[id].subtype = "solid"
    /\ \E i \in 1..Len(pass.visible) :
          /\ ~PoseSees(pass.visible[i], pass.tf_map2camera_vec[1])
          /\ \E k \in 2..Len(pass.tf_map2camera_vec) :
                PoseSees(pass.visible[i], pass.tf_map2camera_vec[k])
    /\ \E i \in 1..Len(pass.visible) :
          \A k \in 1..Len(pass.tf_map2camera_vec) :
              PoseSees(pass.visible[i], pass.tf_map2camera_vec[k]) =>
                 ~(/\ isInImageFrame(pass.input_msg.cam,
                         ToCameraFrame(pass.tf_map2camera_vec[k],
                                       getTrafficMirrorTopLeft(LineStrings[pass.visible[i]])))
                   /\ isInImageFrame(pass.input_msg.cam,
                         ToCameraFrame(pass.tf_map2camera_vec[k],
                                       getTrafficMirrorBottomRight(LineStrings[pass.visible[i]]))))

\* C8: after construction, offsets with max < min are both 0 and other offsets
\* are as declared; a timestamp_sample_len <= 0 is 0.01 s and a
\* max_detection_range <= 0 is 200, valid values are as declared; so max >= min,
\* timestamp_sample_len > 0 and max_detection_range > 0 always, and with the
\* offsets reset a pass samples the single pose at the frame's own stamp.
ClaimC8_ValidatedConfig ==
    /\ IF declared.max_timestamp_offset < declared.min_timestamp_offset
       THEN config_.max_timestamp_offset = 0 /\ config_.min_timestamp_offset = 0
       ELSE /\ config_.max_timestamp_offset = declared.max_timestamp_offset
            /\ config_.min_timestamp_offset = declared.min_timestamp_offset
    /\ config_.timestamp_sample_len =
          (IF declared.timestamp_sample_len <= 0 THEN 1 ELSE declared.timestamp_sample_len)
    /\ config_.max_detection_range =
          (IF declared.max_detection_range <= 0 THEN 200 ELSE declared.max_detection_range)
    /\ config_.max_vibration_pitch = declared.max_vibration_pitch
    /\ config_.max_vibration_yaw = declared.max_vibration_yaw
    /\ config_.max_vibration_height = declared.max_vibration_height
    /\ config_.max_vibration_width = declared.max_vibration_width
    /\ config_.max_vibration_depth = declared.max_vibration_depth
    /\ config_.max_timestamp_offset >= config_.min_timestamp_offset
    /\ config_.timestamp_sample_len > 0
    /\ config_.max_detection_range > 0
    /\ (declared.max_timestamp_offset < declared.min_timestamp_offset
        /\ pass.called /\ PublishedRois) =>
          /\ pass.queries = <<pass.input_msg.stamp>>
          /\ pass.tf_map2camera_vec
                = <<Trajectory(pass.tf_buffer.traj, pass.input_msg.stamp)>>

\* a pass that published under offsets declared with max < min
WitnessC8 ==
    /\ declared.max_timestamp_offset < declared.min_timestamp_offset
    /\ declared.min_timestamp_offset # 0
    /\ pass.called /\ PublishedRois

\* the next larger angle, in units of pi/3, at which sin(angle * 0.5) is rational
LargerAngle(a) == IF a = 0 THEN 1 ELSE 3

\* the configurations that differ from config in one larger vibration term
OneTermLarger(config) ==
    {[config EXCEPT !.max_vibration_depth = @ + 4],
     [config EXCEPT !.max_vibration_width = @ + 2],
     [config EXCEPT !.max_vibration_height = @ + 2],
     [config EXCEPT !.max_vibration_yaw = LargerAngle(@)],
     [config EXCEPT !.max_vibration_pitch = LargerAngle(@)]}

\* C9: for a fixed landmark, camera and pose set, if the aggregator succeeds
\* with a configuration it also succeeds with one whose single vibration term is
\* larger, and the second ROI contains the first.
ClaimC9_Monotone ==
    (pass.called /\ pass.tf_map2camera_vec # <<>>) =>
        \A id \in LandmarkIds : \A larger \in OneTermLarger(config_) :
            AggregateRoi(id, config_).ok =>
                /\ AggregateRoi(id, larger).ok
                /\ RoiContains(AggregateRoi(id, larger).roi, AggregateRoi(id, config_).roi)

\* the last pass had landmark state and its nominal pose, and no visible
\* landmark got both of its ROIs
NothingToEmit ==
    /\ pass.called /\ StateLoaded /\ NominalLookup # <<>>
    /\ \A i \in 1..Len(pass.visible) : ~BothOk(pass.visible[i])

\* C10 as stated: a pass with landmark state and poses in which no landmark is
\* visible, or every visible landmark's ROI computation fails, publishes no
\* rough-ROI message and no expected-ROI message.
ClaimC10_NothingVisibleWithholds ==
    NothingToEmit => pass.roi_pub = <<>> /\ pass.expect_roi_pub = <<>>

\* C10 as amended: such a pass publishes a rough-ROI message and an
\* expected-ROI message with the frame's stamp and no ROI, and a marker message;
\* a pass withholds all three exactly when no landmark state is loaded or the
\* lookup at the frame's stamp fails.
ClaimC10_EmptyArraysPublished ==
    /\ NothingToEmit =>
          /\ pass.roi_pub = <<[stamp |-> pass.input_msg.stamp, rois |-> <<>>]>>
          /\ pass.expect_roi_pub = <<[stamp |-> pass.input_msg.stamp, rois |-> <<>>]>>
          /\ pass.viz_pub # <<>>
    /\ pass.called =>
          ((pass.roi_pub = <<>> /\ pass.expect_roi_pub = <<>> /\ pass.viz_pub = <<>>)
             = (~StateLoaded \/ NominalLookup = <<>>))

\* a pass with a visible landmark whose ROI computation failed, and nothing else
WitnessC10 == NothingToEmit /\ pass.visible # <<>>

\* the clamped pixel of the enlarged corner of line string id at pose i of the
\* last pass: sign is -1 for the top left corner, 1 for the bottom right one
ClampedCorner(id, i, config, sign) ==
    roundInImageFrame(pass.input_msg.cam,
        calcRawImagePointFromPoint3D(pass.input_msg.cam,
            EnlargedPoint2(config,
                ToCameraFrame(pass.tf_map2camera_vec[i],
                    IF sign < 0 THEN getTrafficMirrorTopLeft(LineStrings[id])
                    ELSE getTrafficMirrorBottomRight(LineStrings[id])),
                sign)))

\* both enlarged corners are in front of the camera
CornersInFront(id, i, config) ==
    /\ EnlargedPoint2(config, ToCameraFrame(pass.tf_map2camera_vec[i],
                          getTrafficMirrorTopLeft(LineStrings[id])), -1).z > 0
    /\ EnlargedPoint2(config, ToCameraFrame(pass.tf_map2camera_vec[i],
                          getTrafficMirrorBottomRight(LineStrings[id])), 1).z > 0

\* v - offset < 1 for the rational pixel coordinate v and the whole pixel offset
SignedExtentBelowOne(v, offset) == v[1] - offset * v[2] < v[2]

\* x2 - x_offset < 1 or y2 - y_offset < 1 as signed quantities, x_offset and
\* y_offset being the whole pixels of the clamped top left corner
BoxCollapsedOrInverted(id, i, config) ==
    \/ SignedExtentBelowOne(ClampedCorner(id, i, config, 1).x,
           ClampedCorner(id, i, config, -1).x[1] \div ClampedCorner(id, i, config, -1).x[2])
    \/ SignedExtentBelowOne(ClampedCorner(id, i, config, 1).y,
           ClampedCorner(id, i, config, -1).y[1] \div ClampedCorner(id, i, config, -1).y[2])

\* C11: the single-pose projector fails whenever the clamped bottom-right pixel
\* is not at least one pixel to the right of and below the clamped top-left
\* pixel, the inverted case included: a negative difference never becomes a
\* large unsigned extent that passes the width/height check.
ClaimC11_InvertedBoxFails ==
    (pass.called /\ pass.tf_map2camera_vec # <<>>) =>
        \A id \in LandmarkIds : \A i \in 1..Len(pass.tf_map2camera_vec) :
            /\ (CornersInFront(id, i, config_) /\ BoxCollapsedOrInverted(id, i, config_)) =>
                  ~PoseRoi(id, i, config_).ok
            /\ (CornersInFront(id, i, ExpectRoiCfg(config_))
                /\ BoxCollapsedOrInverted(id, i, ExpectRoiCfg(config_))) =>
                  ~PoseRoi(id, i, ExpectRoiCfg(config_)).ok

\* the routes all of whose primitives are lanelets of map m
RoutesIn(m) ==
    IF m = 0 THEN {}
    ELSE {route \in Routes : \A i \in 1..Len(route) : route[i] \in DOMAIN laneletLayer(m)}

\* the subsets the route callback can compute from map m
RouteSubsetsOf(m) ==
    {TrafficMirrorsOf(m, {route[i] : i \in 1..Len(route)}) : route \in RoutesIn(m)}

\* a pass on the route subset used a subset that derives from the current map
RouteSubsetIsCurrent ==
    (pass.called /\ pass.subset = "route") =>
        Deref(route_traffic_mirrors_ptr_) \in RouteSubsetsOf(lanelet_map_ptr_)

\* a step changes a subset only to what a successful callback computes: the
\* route subset to a subset of a route of the map, the full-map subset to the
\* landmarks of the map just received; with no map the subsets stay as they are
SubsetsChangeOnlyOnSuccess ==
    /\ route_traffic_mirrors_ptr_' # route_traffic_mirrors_ptr_ =>
          /\ lanelet_map_ptr_' = lanelet_map_ptr_
          /\ all_traffic_mirrors_ptr_' = all_traffic_mirrors_ptr_
          /\ route_traffic_mirrors_ptr_' # Null
          /\ Deref(route_traffic_mirrors_ptr_') \in RouteSubsetsOf(lanelet_map_ptr_)
    /\ all_traffic_mirrors_ptr_' # all_traffic_mirrors_ptr_ =>
          /\ lanelet_map_ptr_' \in MapIds
          /\ all_traffic_mirrors_ptr_'
                = Ptr(TrafficMirrorsOf(lanelet_map_ptr_', DOMAIN laneletLayer(lanelet_map_ptr_')))

\* C13: no detection pass uses a route subset computed from a map that has
\* since been replaced (the route subset always derives from the current
\* map), and a route callback that fails, for want of a map or for a primitive
\* id the map does not have, leaves both landmark subsets as they were.
ClaimC13_RouteFollowsMap ==
    [] RouteSubsetIsCurrent /\ [][SubsetsChangeOnlyOnSuccess]_vars

\* the landmarks of the map last received
AllOfMap == TrafficMirrorsOf(lanelet_map_ptr_, DOMAIN laneletLayer(lanelet_map_ptr_))

\* the last pass ran while no map or route callback was under way, on a
\* completely populated subset
PassOnPopulatedSubset ==
    pass.called =>
        /\ running = Idle
        /\ pass.subset = "all" => Deref(all_traffic_mirrors_ptr_) = AllOfMap
        /\ pass.subset = "route" =>
              \E m \in MapIds : Deref(route_traffic_mirrors_ptr_) \in RouteSubsetsOf(m)
        /\ \A i \in 1..Len(pass.visible) : pass.visible[i] \in FilteredSet

\* C12 as stated: a map or route update publishes its pointer only once the
\* set is completely populated (a set pointer never refers to a set that is
\* still empty or partially filled), and every pass iterates a completely
\* populated subset that is not modified while the pass runs.
ClaimC12_AtomicSwap ==
    /\ running.pending = {}
    /\ all_traffic_mirrors_ptr_ # Null => Deref(all_traffic_mirrors_ptr_) = AllOfMap
    /\ PassOnPopulatedSubset

\* C12 as amended: the callbacks of the node exclude one another, so although
\* a map or route callback points its member pointer to an empty set first and
\* fills that set in place, no detection pass runs while a set is being
\* filled: every pass iterates a completely populated subset.
ClaimC12_PassesAreSerialized ==
    /\ PassOnPopulatedSubset
    /\ running.callback = "map" =>
          Deref(all_traffic_mirrors_ptr_) \cup running.pending = AllOfMap
    /\ running.callback # "none" => ~pass.called

\* a pass on a route subset filled in place after the map's set was filled in place
WitnessC12 ==
    /\ pass.called /\ pass.subset = "route" /\ pass.visible # <<>>
    /\ Cardinality(Deref(route_traffic_mirrors_ptr_)) > 1
    /\ Deref(route_traffic_mirrors_ptr_) # Deref(all_traffic_mirrors_ptr_)

====
